---- MODULE Spec2Model ----
(***************************************************************************)
(* Model of src/extractor.py: the block scanner (the regular expression   *)
(* of extract_full_files), the classifier detect_language_and_directory,  *)
(* the materializer save_file, the rule loader load_custom_patterns and   *)
(* the driver loop of extract_full_files.                                 *)
(*                                                                         *)
(* A document is a sequence of lines, every line ended by a newline.  A   *)
(* line is a record [k, a, n]:                                             *)
(*   k = "head"    the text "#" a n   (a the separator, n the file name)   *)
(*   k = "fence"   the text "```" a   (a the language tag, may be empty)   *)
(*   k = "text"    the text a         (no "#" and no backtick in it)       *)
(*   k = "comment" the text "# note"  (a "#", a space, no file name)       *)
(*   k = "blank"   the empty line                                          *)
(* A file name is the sequence of its "/"-separated segments; an absolute  *)
(* name starts with the segment "/".                                       *)
(***************************************************************************)
EXTENDS Integers, Sequences, FiniteSets, TLC

VARIABLES doc, config, custom, matches, idx, pc, fs, fs0, fs1, denied, log,
          run, probe, result

vars == <<doc, config, custom, matches, idx, pc, fs, fs0, fs1, denied, log,
          run, probe, result>>

\* ---------------------------------------------------------------- bounds
MaxLines == 4
MaxBlocks == 2
MaxRules == 2

\* ------------------------------------------------------------ file names
NoName == <<>>

\* The extension of a file name's last segment (the text after its last dot).
ExtOf(base) ==
  CASE base \in {"a.py", "x.py", "A.PY"} -> "py"
    [] base = "b.js" -> "js"
    [] base = "c.jsx" -> "jsx"
    [] base = "n.txt" -> "txt"
    [] OTHER -> "zzz"

\* The extension as re.IGNORECASE sees it, and as file_pattern (which is
\* case-sensitive) sees it: "A.PY" ends in ".PY", not in ".py".
ExactExtOf(base) == IF base = "A.PY" THEN "PY" ELSE ExtOf(base)

Base(name) == name[Len(name)]

\* The alternation (py|js|jsx|html|css|json|yaml|yml|md) of file_pattern.
RecognizedExt == {"py", "js", "jsx", "html", "css", "json", "yaml", "yml", "md"}

\* \S+\.(py|...|md) : the token ends in a recognized extension.
EndsRecognized(name) ==
  /\ name # NoName
  /\ ExactExtOf(Base(name)) \in RecognizedExt

\* ------------------------------------------------------------------ lines
Heading(sep, name) == [k |-> "head", a |-> sep, n |-> name]
Fence(lang) == [k |-> "fence", a |-> lang, n |-> NoName]
Text(s) == [k |-> "text", a |-> s, n |-> NoName]
Comment == [k |-> "comment", a |-> " ", n |-> NoName]
Blank == [k |-> "blank", a |-> "", n |-> NoName]

\* ---------------------------------------------------------------- scanner
\* ^#\s*(\S+\.(py|...|md))\s*\n : "#", any whitespace (also none), a
\* non-blank token ending in a recognized extension, the rest of the line.
IsHeading(l) == l.k = "head" /\ EndsRecognized(l.n)

\* (\w+)? : the language tag of a fence opener is empty or a word.
IsWord(lang) == lang \in {"py"}

\* (?:```(\w+)?\n)? : a fence line opens the fence when "```" is followed by
\* an optional word and the newline.
OpensFence(l) == l.k = "fence" /\ (l.a = "" \/ IsWord(l.a))

\* Stops, were a heading line a boundary only when its extension is recognized.
StopsAtRecognized(l) ==
  \/ l.k = "fence"
  \/ l.k = "comment"
  \/ (l.k = "head" /\ l.a = " " /\ EndsRecognized(l.n))

\* (?:```|(?=^# |\Z)) : the content ends where "```" starts or where a line
\* starts with "#" and a space.
Stops(l) ==
  \/ l.k = "fence"
  \/ l.k = "comment"
  \/ (l.k = "head" /\ l.a = " ")

NotBlank(l) == l.k # "blank"

\* The regex engine's leftmost position: the least index of S, or Len(d) + 1.
Leftmost(d, S) ==
  IF S = {} THEN Len(d) + 1
  ELSE CHOOSE k \in S : \A j \in S : k <= j

\* The first line at or after i that is not blank, that stops a content, that
\* is a heading.
FirstNotBlank(d, i) == Leftmost(d, {k \in i..Len(d) : NotBlank(d[k])})
FirstStop(d, i) == Leftmost(d, {k \in i..Len(d) : Stops(d[k])})
FirstHeading(d, i) == Leftmost(d, {k \in i..Len(d) : IsHeading(d[k])})

\* str.strip() of a captured content: leading and trailing blank lines go.
RECURSIVE Strip(_)
Strip(s) ==
  IF s = <<>> THEN <<>>
  ELSE IF s[1].k = "blank" THEN Strip(Tail(s))
  ELSE IF s[Len(s)].k = "blank" THEN Strip(SubSeq(s, 1, Len(s) - 1))
  ELSE s

\* One match of file_pattern starting at the heading line i.  \s*\n takes the
\* blank lines after the heading; the fence opener is tried on the first
\* non-blank line j; the lazy content ends at the first stopping line q.  When
\* the content ends at "```" the match ends inside line q, otherwise at the
\* start of line q (the lookahead consumes nothing).  name, ext, lang and
\* content are the groups findall returns; at and next are the match's span
\* (the line it starts on, the line the next search starts on).
MatchAt(d, i) ==
  LET j == FirstNotBlank(d, i + 1)
      opened == j <= Len(d) /\ OpensFence(d[j])
      p == IF opened THEN j + 1 ELSE j
      q == FirstStop(d, p)
      closed == q <= Len(d) /\ d[q].k = "fence"
  IN [at |-> i,
      name |-> d[i].n,
      ext |-> ExactExtOf(Base(d[i].n)),
      lang |-> IF opened THEN d[j].a ELSE "",
      content |-> Strip(SubSeq(d, p, q - 1)),
      next |-> IF closed THEN q + 1 ELSE q]

\* file_pattern.findall(content): leftmost matches, each search resuming
\* where the previous match ended.
RECURSIVE FindAllFrom(_, _)
FindAllFrom(d, pos) ==
  LET i == FirstHeading(d, pos)
  IN IF i > Len(d) THEN <<>>
     ELSE LET m == MatchAt(d, i)
          IN <<m>> \o FindAllFrom(d, m.next)

FindAll(d) == FindAllFrom(d, 1)

\* ------------------------------------------------------------- classifier
\* A rule is [tag, dir, pat].  A pattern is [kind, exts]:
\*   kind = "ext"  the pattern \.(e1|e2|...)$ for the extensions exts
\*   kind = "any"  a pattern that matches every file name (such as ".")
\*   kind = "bad"  a string that is no regular expression (such as "(")
ExtPat(exts) == [kind |-> "ext", exts |-> exts]
AnyPat == [kind |-> "any", exts |-> {}]
BadPat == [kind |-> "bad", exts |-> {}]

Rule(tag, dir, pat) == [tag |-> tag, dir |-> dir, pat |-> pat]

\* The dict literal `patterns` of detect_language_and_directory, in its
\* insertion order.
DefaultPatterns ==
  << Rule("python", <<"backend">>, ExtPat({"py"})),
     Rule("javascript", <<"frontend">>, ExtPat({"js"})),
     Rule("jsx", <<"frontend">>, ExtPat({"jsx"})),
     Rule("html", <<"templates">>, ExtPat({"html"})),
     Rule("css", <<"static", "css">>, ExtPat({"css"})),
     Rule("json", <<"static", "data">>, ExtPat({"json"})),
     Rule("yaml", <<"config">>, ExtPat({"yaml", "yml"})),
     Rule("markdown", <<"docs">>, ExtPat({"md"})) >>

\* SetItem, were an existing key removed and inserted again at the end.
SetItemAtEnd(ps, r) ==
  Append(SelectSeq(ps, LAMBDA q : q.tag # r.tag), r)

\* d[key] = value on an insertion-ordered dict: an existing key keeps its
\* position, a new key goes to the end.
SetItem(ps, r) ==
  IF \E i \in 1..Len(ps) : ps[i].tag = r.tag
  THEN [i \in 1..Len(ps) |-> IF ps[i].tag = r.tag THEN r ELSE ps[i]]
  ELSE Append(ps, r)

\* patterns.update(custom_patterns)
RECURSIVE Update(_, _)
Update(ps, cs) ==
  IF cs = <<>> THEN ps
  ELSE Update(SetItem(ps, cs[1]), Tail(cs))

\* re.search(pattern, file_name, re.IGNORECASE) for a pattern that compiles.
Search(pat, name) ==
  \/ pat.kind = "any"
  \/ (pat.kind = "ext" /\ ExtOf(Base(name)) \in pat.exts)

\* mimetypes.guess_type(file_name)[0]; "" stands for None.
GuessType(name) ==
  CASE ExtOf(Base(name)) = "py" -> "text/x-python"
    [] ExtOf(Base(name)) = "js" -> "text/javascript"
    [] ExtOf(Base(name)) = "txt" -> "text/plain"
    [] OTHER -> ""

\* mime_type.split('/')[0]
MainType(mime) ==
  CASE mime \in {"text/x-python", "text/javascript", "text/plain"} -> "text"
    [] OTHER -> "application"

Resolved(tag, dir) == [raised |-> FALSE, tag |-> tag, dir |-> dir]
Raised == [raised |-> TRUE, tag |-> "", dir |-> <<>>]

\* The for loop over patterns.items(): re.search compiles the pattern and
\* raises re.error on a string that is no regular expression; the first
\* matching rule returns.  After the loop, the mimetypes fallback and the
\* default ("txt", ["misc"]).
RECURSIVE DetectFrom(_, _, _)
DetectFrom(ps, i, name) ==
  IF i > Len(ps)
  THEN IF GuessType(name) # ""
       THEN Resolved(GuessType(name), <<MainType(GuessType(name))>>)
       ELSE Resolved("txt", <<"misc">>)
  ELSE IF ps[i].pat.kind = "bad" THEN Raised
  ELSE IF Search(ps[i].pat, name) THEN Resolved(ps[i].tag, ps[i].dir)
  ELSE DetectFrom(ps, i + 1, name)

Patterns(customs) == Update(DefaultPatterns, customs)

detect_language_and_directory(name, customs) ==
  DetectFrom(Patterns(customs), 1, name)

\* ----------------------------------------------------------------- loader
\* An entry of the JSON configuration: [tag, dirIsList, dir, patIsStr, pat].
Entry(tag, dirIsList, dir, patIsStr, pat) ==
  [tag |-> tag, dirIsList |-> dirIsList, dir |-> dir,
   patIsStr |-> patIsStr, pat |-> pat]

\* not isinstance(dir_path, list) or not isinstance(pattern, str)
Invalid(e) == ~e.dirIsList \/ ~e.patIsStr

AsRule(e) == Rule(e.tag, e.dir, e.pat)

RemoveTag(d, tag) == SelectSeq(d, LAMBDA e : e.tag # tag)

\* The loop `for lang, (dir_path, pattern) in patterns.items()` with
\* `del patterns[lang]` in its body.  cfg is the dict as loaded, i the
\* iterator's position, d the dict as it is now, changed whether its size
\* differs from the size the iterator recorded.  The iterator raises
\* RuntimeError on its next step once the size has changed; the except
\* clause then returns {}.
RECURSIVE LoadLoop(_, _, _, _)
LoadLoop(cfg, i, d, changed) ==
  IF changed THEN <<>>
  ELSE IF i > Len(cfg) THEN d
  ELSE IF Invalid(cfg[i])
       THEN LoadLoop(cfg, i + 1, RemoveTag(d, cfg[i].tag), TRUE)
       ELSE LoadLoop(cfg, i + 1, d, FALSE)

load_custom_patterns(cfg) ==
  LET loaded == LoadLoop(cfg, 1, cfg, FALSE)
  IN [i \in 1..Len(loaded) |-> AsRule(loaded[i])]

\* ------------------------------------------------------------ file system
\* fs maps each existing path (a sequence of segments) to its entry.  <<>>
\* is the working directory, <<"/">> the root of absolute paths.
DirEntry == [d |-> TRUE, c |-> <<>>]
FileEntry(content) == [d |-> FALSE, c |-> content]

IsDir(f, p) == p \in DOMAIN f /\ f[p].d
IsFile(f, p) == p \in DOMAIN f /\ ~f[p].d

Cwd == <<>>
RootDir == <<"/">>

\* output_dir as given on the command line: a relative path of one segment.
OutRoot == <<"out">>

Prefixes(p) == {SubSeq(p, 1, k) : k \in 0..Len(p)}

Parent(p) == IF Len(p) = 0 THEN p ELSE SubSeq(p, 1, Len(p) - 1)

\* target_dir.mkdir(parents=True, exist_ok=True) fails when a component of
\* the path exists and is no directory; nothing has been created then.
MkdirFails(f, p) == \E q \in Prefixes(p) : IsFile(f, q)

MkdirP(f, p) ==
  [q \in DOMAIN f \cup Prefixes(p) |-> IF q \in DOMAIN f THEN f[q] ELSE DirEntry]

\* The operating system's walk along a path: every segment before the last
\* must lead to an existing directory, ".." leads to the parent.
RECURSIVE Walk(_, _, _)
Walk(f, cur, segs) ==
  IF Len(segs) = 1 THEN [ok |-> TRUE, path |-> cur \o segs]
  ELSE IF segs[1] = ".." THEN Walk(f, Parent(cur), Tail(segs))
  ELSE IF IsDir(f, cur \o <<segs[1]>>)
       THEN Walk(f, cur \o <<segs[1]>>, Tail(segs))
       ELSE [ok |-> FALSE, path |-> <<>>]

\* file_path = target_dir / file_name: an absolute file_name replaces
\* target_dir, a relative one is appended to it, ".." segments and all.
FilePath(f, td, name) ==
  IF name[1] = "/" THEN Walk(f, RootDir, Tail(name))
  ELSE Walk(f, Cwd, td \o name)

\* ----------------------------------------------------------- materializer
Ev(ev, name, n) == [ev |-> ev, name |-> name, n |-> n]

Outcome(f, ev, raised) == [fs |-> f, ev |-> ev, raised |-> raised]

\* save_file without its try/except: a failure leaves the function.
save_file_uncaught(f, name, dir, content) ==
  LET td == OutRoot \o dir
      f1 == MkdirP(f, td)
      w == FilePath(f1, td, name)
  IN IF MkdirFails(f, td)
     THEN Outcome(f, Ev("failed", name, 0), TRUE)
     ELSE IF ~w.ok \/ IsDir(f1, w.path) \/ w.path \in denied
     THEN Outcome(f1, Ev("failed", name, 0), TRUE)
     ELSE Outcome((w.path :> FileEntry(Strip(content))) @@ f1,
                  Ev("saved", name, 0), FALSE)

\* save_file: mkdir, open(file_path, 'w'), write(file_content.strip()).
\* Every exception is caught and logged; none leaves the function.
save_file(f, name, dir, content) ==
  LET td == OutRoot \o dir
      f1 == MkdirP(f, td)
      w == FilePath(f1, td, name)
  IN IF MkdirFails(f, td)
     THEN Outcome(f, Ev("failed", name, 0), FALSE)
     ELSE IF ~w.ok \/ IsDir(f1, w.path) \/ w.path \in denied
     THEN Outcome(f1, Ev("failed", name, 0), FALSE)
     ELSE Outcome((w.path :> FileEntry(Strip(content))) @@ f1,
                  Ev("saved", name, 0), FALSE)

\* ----------------------------------------------------------------- driver
NoResult == Resolved("", <<>>)

\* __main__: custom_patterns = load_custom_patterns(args.config)
LoadConfig ==
  /\ pc = "load"
  /\ custom' = load_custom_patterns(config)
  /\ pc' = "loaded"
  /\ UNCHANGED <<doc, config, matches, idx, fs, fs0, fs1, denied, log, run,
                 probe, result>>

\* extract_full_files up to `if not matches`: nothing found, the run ends.
ScanNone ==
  /\ pc = "loaded"
  /\ FindAll(doc) = <<>>
  /\ matches' = <<>>
  /\ log' = Append(log, Ev("nofiles", NoName, 0))
  /\ pc' = "done"
  /\ UNCHANGED <<doc, config, custom, idx, fs, fs0, fs1, denied, run, probe,
                 result>>

\* extract_full_files up to the loop: the matches are found and counted.
ScanFound ==
  /\ pc = "loaded"
  /\ FindAll(doc) # <<>>
  /\ matches' = FindAll(doc)
  /\ log' = Append(log, Ev("found", NoName, Len(FindAll(doc))))
  /\ idx' = 1
  /\ pc' = "loop"
  /\ UNCHANGED <<doc, config, custom, fs, fs0, fs1, denied, run, probe, result>>

\* One iteration of `for match in matches`: classify, then save.  An
\* exception that leaves either call leaves extract_full_files and __main__.
LoopStep ==
  /\ pc = "loop"
  /\ idx <= Len(matches)
  /\ LET m == matches[idx]
         r == detect_language_and_directory(m.name, custom)
         s == save_file(fs, m.name, r.dir, m.content)
     IN IF r.raised
        THEN /\ pc' = "aborted"
             /\ UNCHANGED <<idx, fs, log, result>>
        ELSE /\ result' = r
             /\ fs' = s.fs
             /\ log' = Append(log, s.ev)
             /\ IF s.raised
                THEN pc' = "aborted" /\ idx' = idx
                ELSE pc' = "loop" /\ idx' = idx + 1
  /\ UNCHANGED <<doc, config, custom, matches, fs0, fs1, denied, run, probe>>

\* After the loop: logger.info("All files have been processed and saved.")
Finish ==
  /\ pc = "loop"
  /\ idx > Len(matches)
  /\ log' = Append(log, Ev("allsaved", NoName, 0))
  /\ pc' = "done"
  /\ UNCHANGED <<doc, config, custom, matches, idx, fs, fs0, fs1, denied, run,
                 probe, result>>

\* extract_full_files called again with the same arguments; fs1 keeps the
\* file system the first call left.
Rerun ==
  /\ pc = "done"
  /\ run = 1
  /\ run' = 2
  /\ fs1' = fs
  /\ matches' = <<>>
  /\ idx' = 0
  /\ log' = <<>>
  /\ result' = NoResult
  /\ pc' = "loaded"
  /\ UNCHANGED <<doc, config, custom, fs, fs0, denied, probe>>

\* detect_language_and_directory called on its own with the file name probe.
Resolve ==
  /\ pc = "loaded"
  /\ result' = detect_language_and_directory(probe, custom)
  /\ pc' = "resolved"
  /\ UNCHANGED <<doc, config, custom, matches, idx, fs, fs0, fs1, denied, log,
                 run, probe>>

\* ----------------------------------------------------------------- inputs
SeqsUpTo(S, n) == UNION {[1..k -> S] : k \in 0..n}

DistinctTags(cfg) ==
  \A i, j \in 1..Len(cfg) : i # j => cfg[i].tag # cfg[j].tag

EmptyFS == (Cwd :> DirEntry) @@ (RootDir :> DirEntry)

\* The documents of the scanner's specification: every sequence of at most
\* MaxLines of these lines.
ScanLines ==
  { Heading(" ", <<"a.py">>), Heading(" ", <<"b.js">>),
    Heading("\t", <<"b.js">>), Heading(" ", <<"n.txt">>),
    Heading("\t", <<"n.txt">>),
    Fence(""), Fence("py"), Fence("c++"),
    Text("x"), Comment, Blank }

\* The documents of the driver's specification: at most MaxBlocks sections,
\* each a heading and a line of text.
RunNames ==
  { <<"a.py">>, <<"..", "backend", "b.js">>, <<"..", "..", "x.py">>,
    <<"/", "x.py">>, <<"s", "a.py">> }

Sections ==
  { <<Heading(" ", n), Text("x")>> : n \in RunNames }
    \cup { <<Heading(" ", <<"a.py">>), Text("y")>> }

RECURSIVE Concat(_)
Concat(ss) == IF ss = <<>> THEN <<>> ELSE ss[1] \o Concat(Tail(ss))

RunDocs == { Concat(ss) : ss \in SeqsUpTo(Sections, MaxBlocks) }

RunEntries ==
  { Entry("javascript", TRUE, <<"backend", "s">>, TRUE, ExtPat({"js"})),
    Entry("python", TRUE, <<"backend">>, TRUE, BadPat),
    Entry("lua", FALSE, <<"scripts">>, TRUE, ExtPat({"lua"})) }

RunConfigs == { c \in SeqsUpTo(RunEntries, MaxRules) : DistinctTags(c) }

InitialFS ==
  { EmptyFS,
    (OutRoot :> DirEntry) @@ (<<"out", "backend">> :> FileEntry(<<Text("old")>>))
      @@ EmptyFS,
    (OutRoot :> DirEntry) @@ (<<"out", "backend">> :> DirEntry)
      @@ (<<"out", "backend", "a.py">> :> FileEntry(<<Text("old")>>))
      @@ EmptyFS }

\* The paths open() refuses with a permission error.
Denials == { {}, {<<"out", "backend", "a.py">>} }

\* The file systems a run starts in, each with what it denies.
Worlds ==
  { <<f, {}>> : f \in InitialFS } \cup { <<EmptyFS, dn>> : dn \in Denials }

ClassifyNames ==
  { <<"a.py">>, <<"A.PY">>, <<"b.js">>, <<"c.jsx">>, <<"n.txt">>, <<"z.zzz">> }

ClassifyEntries ==
  { Entry("python", TRUE, <<"lib">>, TRUE, ExtPat({"py"})),
    Entry("python", TRUE, <<"lib">>, TRUE, BadPat),
    Entry("jsx", TRUE, <<"frontend">>, TRUE, ExtPat({"tsx"})),
    Entry("zz", TRUE, <<"zz">>, TRUE, AnyPat),
    Entry("notes", TRUE, <<"notes">>, TRUE, ExtPat({"txt"})),
    Entry("bad", TRUE, <<"b">>, TRUE, BadPat),
    Entry("lua", FALSE, <<"scripts">>, TRUE, ExtPat({"lua"})),
    Entry("go", TRUE, <<"cmd">>, FALSE, ExtPat({"go"})) }

ClassifyConfigs == { c \in SeqsUpTo(ClassifyEntries, MaxRules) : DistinctTags(c) }

\* --------------------------------------------------------- specifications
Start(d, c, f, dn, pr) ==
  /\ doc = d
  /\ config = c
  /\ custom = <<>>
  /\ matches = <<>>
  /\ idx = 0
  /\ pc = IF c = <<>> THEN "loaded" ELSE "load"
  /\ fs = f
  /\ fs0 = f
  /\ fs1 = f
  /\ denied = dn
  /\ log = <<>>
  /\ run = 1
  /\ probe = pr
  /\ result = NoResult

\* The whole program: load the rules, scan, classify and save every block;
\* then the same call once more.
Init ==
  \E d \in RunDocs, c \in RunConfigs, w \in Worlds :
    Start(d, c, w[1], w[2], NoName)

Next == LoadConfig \/ ScanNone \/ ScanFound \/ LoopStep \/ Finish \/ Rerun

Spec == Init /\ [][Next]_vars

\* The scanner alone, on every document of at most MaxLines lines.
InitScan ==
  \E d \in SeqsUpTo(ScanLines, MaxLines) : Start(d, <<>>, EmptyFS, {}, NoName)

NextScan == ScanNone \/ ScanFound

SpecScan == InitScan /\ [][NextScan]_vars

\* The loader and the classifier alone, on every file name and configuration.
InitClassify ==
  \E n \in ClassifyNames, c \in ClassifyConfigs :
    Start(<<>>, c, EmptyFS, {}, n)

NextClassify == LoadConfig \/ Resolve

SpecClassify == InitClassify /\ [][NextClassify]_vars

\* ----------------------------------------------------------------- claims
Scanned == pc \in {"loop", "done", "aborted"}

IsPrefix(p, q) == Len(p) <= Len(q) /\ SubSeq(q, 1, Len(p)) = p

\* The save_file events of the log, one per write attempt, in order.
SaveEvents == SelectSeq(log, LAMBDA e : e.ev \in {"saved", "failed"})

\* The path block i is written to.
BlockPath(i) ==
  LET r == detect_language_and_directory(matches[i].name, custom)
  IN FilePath(fs, OutRoot \o r.dir, matches[i].name).path

\* C1: a failure of save_file on one block never ends the loop: the driver goes
\* on to the next block, every block before the driver's position has had its
\* write attempt in document order, a run that reaches its end has attempted
\* every block, and every block whose attempt did not fail is on disk at its
\* target path (holding the content of the last block saved to that path).
\* The only way the loop ends early is an error raised by the classifier.
C1_FailureIsolation ==
  (Scanned /\ matches # <<>>) =>
    /\ Len(SaveEvents) = idx - 1
    /\ \A i \in 1..Len(SaveEvents) : SaveEvents[i].name = matches[i].name
    /\ pc = "done" => idx = Len(matches) + 1
    /\ pc = "aborted" =>
         detect_language_and_directory(matches[idx].name, custom).raised
    /\ \A i \in 1..Len(SaveEvents) :
         SaveEvents[i].ev = "saved" =>
           /\ IsFile(fs, BlockPath(i))
           /\ \E j \in i..Len(SaveEvents) :
                /\ SaveEvents[j].ev = "saved"
                /\ BlockPath(j) = BlockPath(i)
                /\ fs[BlockPath(i)].c = matches[j].content

\* A finished run in which a block failed and a later block was written.
C1_Witness ==
  /\ pc = "done"
  /\ \E i, j \in 1..Len(SaveEvents) :
       i < j /\ SaveEvents[i].ev = "failed" /\ SaveEvents[j].ev = "saved"

\* The first fence line after line j, or Len(doc) + 1.
IsFenceLine(l) == l.k = "fence"
NextFence(j) == Leftmost(doc, {k \in j..Len(doc) : IsFenceLine(doc[k])})

\* C2: a block whose heading line is immediately followed by a fence opener
\* captures exactly the trimmed lines between the opener and the nearest
\* following fence closer (a line that is "```" alone), whatever those lines
\* are.
C2_FencedContent ==
  Scanned =>
    \A k \in 1..Len(matches) :
      LET j == matches[k].at + 1
          c == NextFence(j + 1)
      IN (j <= Len(doc) /\ OpensFence(doc[j]) /\ c <= Len(doc) /\ doc[c] = Fence(""))
           => matches[k].content = Strip(SubSeq(doc, j + 1, c - 1))

\* A heading line as the specification describes it: the marker, whitespace,
\* a file name with a recognized extension.
IsSpecHeading(l) == IsHeading(l) /\ l.a \in {" ", "\t"}
IsTextLine(l) == l.k = "text"
FirstNotText(d, i) == Leftmost(d, {k \in i..Len(d) : ~IsTextLine(d[k])})

\* A document made of sections only: a heading followed by a paragraph of
\* text lines, or by a fence opener, text lines and a fence closer.
RECURSIVE SectionsFrom(_, _)
SectionsFrom(d, i) ==
  IF i > Len(d) THEN TRUE
  ELSE /\ IsSpecHeading(d[i])
       /\ i + 1 <= Len(d)
       /\ IF IsTextLine(d[i + 1])
          THEN SectionsFrom(d, FirstNotText(d, i + 1))
          ELSE /\ OpensFence(d[i + 1])
               /\ LET c == FirstNotText(d, i + 2)
                  IN c <= Len(d) /\ d[c] = Fence("") /\ SectionsFrom(d, c + 1)

WellFormed(d) == d # <<>> /\ SectionsFrom(d, 1)

HeadingLines(d) == {i \in 1..Len(d) : IsSpecHeading(d[i])}

\* The k-th smallest element of a set of numbers.
Nth(S, k) == CHOOSE i \in S : Cardinality({j \in S : j <= i}) = k

\* C3: a document of N sections yields exactly N blocks, the k-th block
\* starting at the k-th heading, carrying its file name and ending before the
\* next heading.
C3_OneBlockPerHeading ==
  (Scanned /\ WellFormed(doc)) =>
    LET H == HeadingLines(doc)
    IN /\ Len(matches) = Cardinality(H)
       /\ \A k \in 1..Len(matches) :
            /\ k <= Cardinality(H)
            /\ matches[k].at = Nth(H, k)
            /\ matches[k].name = doc[Nth(H, k)].n
            /\ k < Cardinality(H) => matches[k].next <= Nth(H, k + 1)

\* C4: whatever a run creates or changes in the file system lies inside the
\* output root.
C4_Confined ==
  \A p \in DOMAIN fs :
    (p \notin DOMAIN fs0 \/ fs[p] # fs0[p]) => IsPrefix(OutRoot, p)

\* C5: detect_language_and_directory returns for every file name and every
\* rule set that passed loading, and returns ("txt", ["misc"]) when no rule
\* matches and no MIME type is guessed.
C5_NeverFails ==
  pc = "resolved" =>
    /\ ~result.raised
    /\ ( /\ \A i \in 1..Len(Patterns(custom)) :
              ~Search(Patterns(custom)[i].pat, probe)
         /\ GuessType(probe) = "" )
       => (result.tag = "txt" /\ result.dir = <<"misc">>)

DefaultTags == {DefaultPatterns[i].tag : i \in 1..Len(DefaultPatterns)}
IsNewTag(r) == r.tag \notin DefaultTags

\* The rules of ps that match the file name.
Matching(ps, name) == {i \in 1..Len(ps) : Search(ps[i].pat, name)}

\* C6: in the merged rules every built-in tag keeps its position (a caller's
\* rule with that tag replaces the entry there), the caller's new tags follow
\* the built-ins in the order supplied, and a call that returns a rule returns
\* the first rule of that order that matches; so a name matched by a built-in
\* entry and by a new-tag rule resolves to the built-in entry.
C6_MergeOrderFirstMatch ==
  pc \in {"loaded", "resolved"} =>
    LET ps == Patterns(custom)
        n == Len(DefaultPatterns)
    IN /\ Len(ps) >= n
       /\ \A i \in 1..n :
            /\ ps[i].tag = DefaultPatterns[i].tag
            /\ IF \E c \in 1..Len(custom) : custom[c].tag = ps[i].tag
               THEN \E c \in 1..Len(custom) : custom[c] = ps[i]
               ELSE ps[i] = DefaultPatterns[i]
       /\ SubSeq(ps, n + 1, Len(ps)) = SelectSeq(custom, IsNewTag)
       /\ (pc = "resolved" /\ ~result.raised /\ Matching(ps, probe) # {}) =>
            LET first == CHOOSE i \in Matching(ps, probe) :
                           \A j \in Matching(ps, probe) : i <= j
            IN /\ result.tag = ps[first].tag
               /\ result.dir = ps[first].dir
               /\ (\E i \in Matching(ps, probe) : i <= n) => first <= n

\* a.py resolved under an overriding python rule and a new-tag rule that
\* matches every name.
C6_Witness ==
  /\ pc = "resolved"
  /\ \E c \in 1..Len(custom) : custom[c].tag = "zz"
  /\ \E c \in 1..Len(custom) : custom[c].tag = "python"
  /\ probe = <<"a.py">>
  /\ result.tag = "python"
  /\ result.dir = <<"lib">>

\* C7: loading drops exactly the malformed entries and returns every
\* well-formed entry of the configuration.
C7_DropsOnlyMalformed ==
  pc # "load" =>
    LET kept == SelectSeq(config, LAMBDA e : ~Invalid(e))
    IN custom = [i \in 1..Len(kept) |-> AsRule(kept[i])]

\* C8: a run in which a block failed is not reported as if every file had been
\* saved.
C8_FailuresReported ==
  (pc = "done" /\ \E i \in 1..Len(log) : log[i].ev = "failed")
    => ~ \E i \in 1..Len(log) : log[i].ev = "allsaved"

\* C9: the second run leaves the file system the first run left.
C9_Idempotent ==
  (run = 2 /\ pc = "done") => fs = fs1

\* A block m with no fence, followed by text lines only up to line u, a
\* heading line (marker, whitespace, file name) of unrecognized extension.
OpenBefore(m, u) ==
  /\ m.at < u - 1
  /\ u <= Len(doc)
  /\ \A i \in (m.at + 1)..(u - 1) : IsTextLine(doc[i])
  /\ doc[u].k = "head"
  /\ doc[u].a \in {" ", "\t"}
  /\ ~EndsRecognized(doc[u].n)

\* C10 as stated: the unrecognized heading line is part of the content of the
\* preceding open block.
C10_Absorbed ==
  Scanned =>
    \A k \in 1..Len(matches) : \A u \in 1..Len(doc) :
      OpenBefore(matches[k], u) =>
        /\ Len(matches[k].content) >= u - matches[k].at
        /\ matches[k].content[u - matches[k].at] = doc[u]

\* C10 as amended: no block starts at an unrecognized heading line.  Written
\* with a space after the marker, the line ends the preceding open block: that
\* block's content is the text before the line, and the line and what follows
\* it up to the next recognized heading is in no block.  Written with a tab
\* after the marker, the line is part of the preceding open block's content.
C10_UnrecognizedHeading ==
  Scanned =>
    /\ \A k \in 1..Len(matches) : IsHeading(doc[matches[k].at])
    /\ \A k \in 1..Len(matches) : \A u \in 1..Len(doc) :
         OpenBefore(matches[k], u) =>
           IF doc[u].a = " "
           THEN /\ matches[k].content = SubSeq(doc, matches[k].at + 1, u - 1)
                /\ \A j \in 1..Len(matches) :
                     \/ matches[j].next <= u
                     \/ matches[j].at >= FirstHeading(doc, u + 1)
           ELSE /\ Len(matches[k].content) >= u - matches[k].at
                /\ matches[k].content[u - matches[k].at] = doc[u]

\* "# a.py", a line of text, "# n.txt", a line of text: scanned.
C10_Witness ==
  /\ Scanned
  /\ \E k \in 1..Len(matches) : \E u \in 1..(Len(doc) - 1) :
       /\ OpenBefore(matches[k], u)
       /\ doc[u].a = " "
       /\ IsTextLine(doc[u + 1])

====
